---- MODULE Spec2Model ----
(***************************************************************************)
(* Playback coordinator of the e-book reader (App component) and the       *)
(* speech endpoint.  React state is modelled by one variable per useState  *)
(* cell, refs by one variable per useRef cell.  A function created during  *)
(* a render keeps the state values of that render: every play request,     *)
(* and every callback or timer it leaves behind, carries the closure       *)
(* (cloud, rate, voice, sample, view) it was created under.                *)
(*                                                                         *)
(* A user event runs in the latest render; a step is one handler, or one   *)
(* continuation of playPage between two awaits, or one callback.           *)
(* generateSpeech and ttsService are imported modules: the provider is     *)
(* taken to answer an aborted call with the abort error only, and the      *)
(* synthesizer to deliver no callback for a cancelled utterance.           *)
(* decodeAudioData receives no signal: it may resolve or reject for an     *)
(* aborted request too.  Rates are in tenths (10 = 1.0).                   *)
(*                                                                         *)
(* The speech endpoint (api/generate-speech.ts) is a second machine, with  *)
(* its own cells and its own specification SpecHandler: it handles one     *)
(* request at a time, in the steps its two awaits cut it into.             *)
(***************************************************************************)
EXTENDS Integers, Sequences, FiniteSets, TLC

\* ---------------------------------------------------------------- bounds
NumPages == 2
MaxReq == 2
MaxTimers == 1

\* ------------------------------------------------------ program constants
HistoryCap == 10
DefaultRate == 10
MAX_CHARS == 3000

NoPage == 0
NoSlot == 0
Rates == {DefaultRate, DefaultRate + 5}
Slots == 1..MaxReq
PageNums == 1..NumPages

VARIABLES
  isLanding, pages, activePage,
  isPlaying, isGeneratingAudio, isPaused,
  selectedVoiceURI, playbackRate, userVoiceSample, useCloudTTS, viewMode,
  history,
  audioCtx, audioSourceRef, abortControllerRef,
  reqs, tts, timers, fx,
  API_KEY, hReq, hPc, hProvider, hClients, hCalls, hResponses

vars == <<isLanding, pages, activePage, isPlaying, isGeneratingAudio, isPaused,
          selectedVoiceURI, playbackRate, userVoiceSample, useCloudTTS, viewMode,
          history, audioCtx, audioSourceRef, abortControllerRef,
          reqs, tts, timers, fx,
          API_KEY, hReq, hPc, hProvider, hClients, hCalls, hResponses>>

\* the cells of the speech endpoint (api/generate-speech.ts), which the App
\* component never touches, and the cells of the App component
handlerVars == <<API_KEY, hReq, hPc, hProvider, hClients, hCalls, hResponses>>
appVars == <<isLanding, pages, activePage, isPlaying, isGeneratingAudio, isPaused,
             selectedVoiceURI, playbackRate, userVoiceSample, useCloudTTS, viewMode,
             history, audioCtx, audioSourceRef, abortControllerRef,
             reqs, tts, timers, fx>>

\* the state cells playPage never writes
settingVars == <<selectedVoiceURI, playbackRate, userVoiceSample, useCloudTTS, viewMode>>
docVars == <<isLanding, pages>>

\* ------------------------------------------------------------- closures
\* The values of the state cells that playPage, handleAutoAdvance and
\* animatePageTurn read from the render they were created in.
CurClosure ==
  [cloud |-> useCloudTTS, rate |-> playbackRate, voice |-> selectedVoiceURI,
   sample |-> userVoiceSample, view |-> viewMode]

NoClosure ==
  [cloud |-> TRUE, rate |-> DefaultRate, voice |-> "null", sample |-> "null",
   view |-> "scroll"]

\* One slot per AbortController: the play request that created it, the
\* position of its async continuation, and the audio source it started.
\*   resume   : awaiting audioCtx.resume()            (line 234)
\*   provider : awaiting generateSpeech               (line 241)
\*   decode   : awaiting decodeAudioData              (line 252)
\*   playing  : its source is started and has not ended
\*   stopped  : its source was stopped, the ended event is not yet delivered
\*   done     : nothing of the request is left
FreeRec ==
  [stage |-> "done", page |-> NoPage, aborted |-> FALSE, cl |-> NoClosure, rate |-> 0]

TtsIdle == [state |-> "idle", page |-> NoPage, rate |-> 0, cl |-> NoClosure]

\* ---------------------------------------------------------------- helpers
IndexOf(ps, n) ==
  IF \E i \in 1..Len(ps) : ps[i] = n
  THEN CHOOSE i \in 1..Len(ps) : ps[i] = n /\ \A j \in 1..(i-1) : ps[j] # n
  ELSE 0

\* addToHistory without the filter: the page's old entry is kept
addToHistoryNoFilter(prev, pageNumber) ==
  LET newHistory == <<pageNumber>> \o prev
  IN SubSeq(newHistory, 1, IF Len(newHistory) < HistoryCap THEN Len(newHistory) ELSE HistoryCap)

\* addToHistory: drop the page's old entry, put the new one first, keep 10.
\* An entry is its page number (the timestamp Date.now() is not modelled).
addToHistory(prev, pageNumber) ==
  LET filtered == SelectSeq(prev, LAMBDA item : item # pageNumber)
      newHistory == <<pageNumber>> \o filtered
  IN SubSeq(newHistory, 1, IF Len(newHistory) < HistoryCap THEN Len(newHistory) ELSE HistoryCap)

\* playPage without the abort of the previous controller
abortPreviousSkipped(rq, ref) == rq

\* abortControllerRef.current.abort() at the head of playPage
abortPrevious(rq, ref) ==
  IF ref # NoSlot /\ rq[ref].stage # "done"
  THEN [rq EXCEPT ![ref].aborted = TRUE]
  ELSE rq

\* stopCloudAudio that drops the reference without stopping the source
stopCloudAudioNoStop(rq, src) == rq

\* stopCloudAudio: stop() ends a started source (its ended event follows),
\* and throws, caught, on one that has ended; the ref is cleared by the caller.
stopCloudAudio(rq, src) ==
  IF src # NoSlot /\ rq[src].stage = "playing"
  THEN [rq EXCEPT ![src].stage = "stopped"]
  ELSE rq

\* audioSourceRef.current.playbackRate.value = newRate
setSourceRate(rq, src, newRate) ==
  IF rq[src].stage = "playing" THEN [rq EXCEPT ![src].rate = newRate] ELSE rq

\* source.playbackRate.value = playbackRate, the playbackRate of the closure
sourceRate(cl) == cl.rate

\* playPage without the check of the signal after the two awaits
abortedAfterDecodeIgnored(r) == FALSE

\* "if (abortController.signal.aborted) return" after the two awaits
abortedAfterDecode(r) == r.aborted

\* "if (!abortController.signal.aborted)" in source.onended
onendedApplies(r) == ~r.aborted

\* handleAutoAdvance taking allPages[currentIndex]
nextPageOfSame(ps, currentIndex) == ps[currentIndex]

\* allPages[currentIndex + 1]
nextPageOf(ps, currentIndex) == ps[currentIndex + 1]

\* The cloud provider (generateSpeech): once its signal is aborted it answers
\* with the abort error only.
providerMayAnswer(r) == ~r.aborted

\* The on-device synthesizer (ttsService): cancel, pause and resume act in
\* place and a cancelled utterance delivers no callback.
ttsCancel(t) == TtsIdle
ttsPause(t) == IF t.state = "speaking" THEN [t EXCEPT !.state = "paused"] ELSE t
ttsResume(t) == IF t.state = "paused" THEN [t EXCEPT !.state = "speaking"] ELSE t

\* The length of page.content, as parseBookContent or parsePDF delivered
\* it: the last page of the book is one character over the provider's limit.
PageChars == [p \in PageNums |-> IF p = NumPages THEN MAX_CHARS + 1 ELSE MAX_CHARS]

\* selectedVoiceURI === 'custom-voice', in the render of the request
isCustomVoice(cl) == cl.voice = "custom-voice"

\* the voice handed to generateSpeech: 'custom-voice', the selected voice, or Kore
voiceToUse(cl) ==
  IF isCustomVoice(cl) THEN "custom-voice" ELSE IF cl.voice = "null" THEN "Kore" ELSE cl.voice

\* the sample handed to generateSpeech: isCustomVoice ? userVoiceSample : null
sampleSent(cl) == IF isCustomVoice(cl) THEN cl.sample ELSE "null"

\* the text handed to generateSpeech for request r: page.content
textSent(r) == PageChars[r.page]

FreeSlots(rq) == {s \in Slots : rq[s].stage = "done"}
NewSlot(rq) == CHOOSE s \in FreeSlots(rq) : \A t \in FreeSlots(rq) : s <= t

\* ------------------------------------------------------------------ Init
\* The list read from localStorage at mount: the pages of an earlier session,
\* one short of the cap.
StoredHistory == [i \in 1..(HistoryCap - 1) |-> NumPages + i]

AppInit ==
  /\ isLanding = TRUE
  /\ pages = <<>>
  /\ activePage = NoPage
  /\ isPlaying = FALSE
  /\ isGeneratingAudio = FALSE
  /\ isPaused = FALSE
  /\ selectedVoiceURI = "null"
  /\ playbackRate = DefaultRate
  /\ userVoiceSample = "null"
  /\ useCloudTTS = TRUE
  /\ viewMode = "scroll"
  /\ history = StoredHistory
  /\ audioCtx = "none"
  /\ audioSourceRef = NoSlot
  /\ abortControllerRef = NoSlot
  /\ reqs = [s \in Slots |-> FreeRec]
  /\ tts = TtsIdle
  /\ timers = <<>>
  /\ fx = {}

\* no request is being handled
NoRequest == [method |-> "none", body |-> "none", text |-> [kind |-> "undefined", len |-> 0],
              voice |-> "undefined"]

HandlerIdle ==
  /\ hReq = NoRequest
  /\ hPc = "idle"
  /\ hProvider = "none"
  /\ hClients = 0
  /\ hCalls = <<>>
  /\ hResponses = <<>>

Init ==
  /\ AppInit
  /\ API_KEY = "key"
  /\ HandlerIdle

\* ------------------------------------------------------------- playPage
\* The synchronous part of playPage(page) called from a function of the
\* render with closure cl: up to the first await in cloud mode, all of it
\* in on-device mode.  Writes every variable outside docVars, settingVars
\* and timers.  fx lists what the step emitted: "generateSpeech" and "speak"
\* (a provider request), "sourceStart", "toast:<type>" (showToast), and
\* "autoAdvance" when the request comes from the auto-advance timer (tags).
playPage(page, cl, tags) ==
  LET rq1 == abortPrevious(reqs, abortControllerRef)
      rq2 == stopCloudAudio(rq1, audioSourceRef)
      k == NewSlot(rq2)
  IN
  /\ FreeSlots(rq2) # {}
  /\ abortControllerRef' = k
  /\ history' = addToHistory(history, page)
  /\ audioSourceRef' = NoSlot
  /\ isPaused' = FALSE
  /\ activePage' = page
  /\ IF cl.cloud
     THEN /\ isGeneratingAudio' = TRUE
          /\ isPlaying' = FALSE
          /\ tts' = ttsCancel(tts)
          /\ audioCtx' = IF audioCtx = "none" THEN "running" ELSE audioCtx
          /\ reqs' = [rq2 EXCEPT ![k] =
                        [stage |-> IF audioCtx = "suspended" THEN "resume" ELSE "provider",
                         page |-> page, aborted |-> FALSE, cl |-> cl, rate |-> 0]]
          /\ fx' = tags \cup (IF audioCtx = "suspended" THEN {} ELSE {"generateSpeech"})
     ELSE /\ isPlaying' = TRUE
          /\ tts' = [state |-> "speaking", page |-> page, rate |-> cl.rate, cl |-> cl]
          /\ reqs' = [rq2 EXCEPT ![k] = FreeRec]
          /\ fx' = tags \cup {"speak"}
          /\ UNCHANGED <<isGeneratingAudio, audioCtx>>

\* ------------------------------------------------------------- document
loadDemoBook ==
  /\ isLanding
  /\ pages' = [i \in 1..NumPages |-> i]
  /\ activePage' = 1
  /\ isLanding' = FALSE
  /\ fx' = {"toast:success"}
  /\ UNCHANGED <<isPlaying, isGeneratingAudio, isPaused, settingVars, history,
                 audioCtx, audioSourceRef, abortControllerRef, reqs, tts, timers>>
  /\ UNCHANGED handlerVars

\* ----------------------------------------------------------- user events
\* handlePageSelect that only selects the page
handlePageSelectOnly(p) ==
  /\ ~isLanding
  /\ IndexOf(pages, p) # 0
  /\ activePage' = p
  /\ fx' = {}
  /\ UNCHANGED <<docVars, settingVars, timers, isPlaying, isGeneratingAudio, isPaused,
                 history, audioCtx, audioSourceRef, abortControllerRef, reqs, tts>>
  /\ UNCHANGED handlerVars

handlePageSelect(p) ==
  /\ ~isLanding
  /\ IndexOf(pages, p) # 0
  /\ playPage(p, CurClosure, {})
  /\ UNCHANGED <<docVars, settingVars, timers>>
  /\ UNCHANGED handlerVars

handleTogglePlay ==
  /\ ~isLanding
  /\ IF isPlaying /\ ~isPaused
     THEN /\ isPaused' = TRUE
          /\ IF useCloudTTS /\ audioCtx # "none"
             THEN audioCtx' = "suspended" /\ UNCHANGED tts
             ELSE tts' = ttsPause(tts) /\ UNCHANGED audioCtx
          /\ fx' = {}
          /\ UNCHANGED <<activePage, isPlaying, isGeneratingAudio, history,
                         audioSourceRef, abortControllerRef, reqs>>
     ELSE IF isPlaying /\ isPaused
     THEN /\ isPaused' = FALSE
          /\ IF useCloudTTS /\ audioCtx # "none"
             THEN audioCtx' = "running" /\ UNCHANGED tts
             ELSE tts' = ttsResume(tts) /\ UNCHANGED audioCtx
          /\ fx' = {}
          /\ UNCHANGED <<activePage, isPlaying, isGeneratingAudio, history,
                         audioSourceRef, abortControllerRef, reqs>>
     ELSE /\ IndexOf(pages, activePage) # 0
          /\ playPage(activePage, CurClosure, {})
  /\ UNCHANGED <<docVars, settingVars, timers>>
  /\ UNCHANGED handlerVars

\* handleIndexJump that plays the target page whatever isPlaying is
handleIndexJumpPlays(pageNumber) ==
  /\ ~isLanding
  /\ IndexOf(pages, pageNumber) # 0
  /\ playPage(pageNumber, CurClosure, {})
  /\ UNCHANGED <<docVars, settingVars, timers>>
  /\ UNCHANGED handlerVars

\* handleIndexJump, and handleHistoryJump which only delegates to it
handleIndexJump(pageNumber) ==
  /\ ~isLanding
  /\ IndexOf(pages, pageNumber) # 0
  /\ IF isPlaying
     THEN playPage(pageNumber, CurClosure, {})
     ELSE /\ activePage' = pageNumber
          /\ fx' = {}
          /\ UNCHANGED <<isPlaying, isGeneratingAudio, isPaused, history, audioCtx,
                         audioSourceRef, abortControllerRef, reqs, tts>>
  /\ UNCHANGED <<docVars, settingVars, timers>>
  /\ UNCHANGED handlerVars

\* handleNext (dir = 1) and handlePrev (dir = -1) with animatePageTurn: in
\* scroll mode the callback runs at once, in flip mode after the 300 ms timer.
handleTurn(dir) ==
  LET currentIndex == IndexOf(pages, activePage)
      target == pages[currentIndex + dir]
  IN
  /\ ~isLanding
  /\ activePage # NoPage
  /\ currentIndex + dir >= 1
  /\ currentIndex + dir <= Len(pages)
  /\ IF viewMode = "scroll"
     THEN /\ IF isPlaying
             THEN playPage(target, CurClosure, {})
             ELSE /\ activePage' = target
                  /\ fx' = {}
                  /\ UNCHANGED <<isPlaying, isGeneratingAudio, isPaused, history, audioCtx,
                                 audioSourceRef, abortControllerRef, reqs, tts>>
          /\ UNCHANGED timers
     ELSE /\ Len(timers) < MaxTimers
          /\ timers' = Append(timers, [kind |-> "nav", stage |-> "flip", page |-> target,
                                       cl |-> CurClosure, playing |-> isPlaying])
          /\ fx' = {}
          /\ UNCHANGED <<activePage, isPlaying, isGeneratingAudio, isPaused, history,
                         audioCtx, audioSourceRef, abortControllerRef, reqs, tts>>
  /\ UNCHANGED <<docVars, settingVars>>
  /\ UNCHANGED handlerVars

handleNext == handleTurn(1)
handlePrev == handleTurn(-1)

\* playPage is the one of the render the handler belongs to: it still reads
\* the playbackRate of before setPlaybackRate(newRate).
handleSpeedChange(newRate) ==
  /\ ~isLanding
  /\ playbackRate' = newRate
  /\ IF useCloudTTS /\ audioSourceRef # NoSlot
     THEN /\ reqs' = setSourceRate(reqs, audioSourceRef, newRate)
          /\ fx' = {}
          /\ UNCHANGED <<activePage, isPlaying, isGeneratingAudio, isPaused, history,
                         audioCtx, audioSourceRef, abortControllerRef, tts>>
     ELSE IF isPlaying /\ ~isPaused /\ activePage # NoPage /\ IndexOf(pages, activePage) # 0
     THEN playPage(activePage, CurClosure, {})
     ELSE /\ fx' = {}
          /\ UNCHANGED <<activePage, isPlaying, isGeneratingAudio, isPaused, history,
                         audioCtx, audioSourceRef, abortControllerRef, reqs, tts>>
  /\ UNCHANGED <<docVars, selectedVoiceURI, userVoiceSample, useCloudTTS, viewMode, timers>>
  /\ UNCHANGED handlerVars

handleToggleCloudMode(useCloud) ==
  /\ ~isLanding
  /\ tts' = ttsCancel(tts)
  /\ reqs' = stopCloudAudio(reqs, audioSourceRef)
  /\ audioSourceRef' = NoSlot
  /\ isPlaying' = FALSE
  /\ isGeneratingAudio' = FALSE
  /\ isPaused' = FALSE
  /\ useCloudTTS' = useCloud
  /\ selectedVoiceURI' = "null"
  /\ fx' = {"toast:info"}
  /\ UNCHANGED <<docVars, activePage, playbackRate, userVoiceSample, viewMode, history,
                 audioCtx, abortControllerRef, timers>>
  /\ UNCHANGED handlerVars

setViewMode(v) ==
  /\ ~isLanding
  /\ viewMode' = v
  /\ fx' = {}
  /\ UNCHANGED <<docVars, activePage, isPlaying, isGeneratingAudio, isPaused,
                 selectedVoiceURI, playbackRate, userVoiceSample, useCloudTTS, history,
                 audioCtx, audioSourceRef, abortControllerRef, reqs, tts, timers>>
  /\ UNCHANGED handlerVars

\* onVoiceChange of the AudioController: a named voice or the default
VoiceChoices == {"null", "Puck"}

setSelectedVoiceURI(v) ==
  /\ ~isLanding
  /\ activePage # NoPage
  /\ selectedVoiceURI' = v
  /\ fx' = {}
  /\ UNCHANGED <<docVars, activePage, isPlaying, isGeneratingAudio, isPaused,
                 playbackRate, userVoiceSample, useCloudTTS, viewMode, history,
                 audioCtx, audioSourceRef, abortControllerRef, reqs, tts, timers>>
  /\ UNCHANGED handlerVars

\* the recordings the AudioController hands over: one sample, or null
VoiceSamples == {"null", "sample"}

handleRecordVoice(base64Audio) ==
  /\ ~isLanding
  /\ activePage # NoPage
  /\ IF base64Audio # "null"
     THEN /\ userVoiceSample' = base64Audio
          /\ selectedVoiceURI' = "custom-voice"
          /\ fx' = {"toast:success"}
     ELSE /\ userVoiceSample' = "null"
          /\ selectedVoiceURI' = "null"
          /\ fx' = {"toast:info"}
  /\ UNCHANGED <<docVars, activePage, isPlaying, isGeneratingAudio, isPaused,
                 playbackRate, useCloudTTS, viewMode, history,
                 audioCtx, audioSourceRef, abortControllerRef, reqs, tts, timers>>
  /\ UNCHANGED handlerVars

\* the files of an upload: none chosen, not a PDF, a PDF that parsePDF
\* rejects, or a PDF of n pages numbered 1..n (n = 0: no text found)
Files == [kind : {"none", "other", "broken"}, n : {0}] \cup [kind : {"pdf"}, n : 0..NumPages]

\* handleFileUpload, at the point where parsePDF has settled
handleFileUpload(file) ==
  /\ isLanding
  /\ IF file.kind = "pdf"
     THEN /\ pages' = [i \in 1..file.n |-> i]
          /\ IF file.n > 0
             THEN /\ activePage' = 1
                  /\ isLanding' = FALSE
                  /\ fx' = {"toast:success"}
             ELSE /\ fx' = {"toast:error"}
                  /\ UNCHANGED <<activePage, isLanding>>
     ELSE /\ fx' = IF file.kind = "none" THEN {} ELSE {"toast:error"}
          /\ UNCHANGED <<pages, activePage, isLanding>>
  /\ UNCHANGED <<isPlaying, isGeneratingAudio, isPaused, settingVars, history,
                 audioCtx, audioSourceRef, abortControllerRef, reqs, tts, timers>>
  /\ UNCHANGED handlerVars

\* the "Salir" button: setIsLanding(true)
exitReader ==
  /\ ~isLanding
  /\ isLanding' = TRUE
  /\ fx' = {}
  /\ UNCHANGED <<pages, activePage, isPlaying, isGeneratingAudio, isPaused, settingVars,
                 history, audioCtx, audioSourceRef, abortControllerRef, reqs, tts, timers>>
  /\ UNCHANGED handlerVars

\* ------------------------------------------------- playPage continuations
\* after "await audioCtxRef.current.resume()": generateSpeech is called
resumeDone(s) ==
  /\ reqs[s].stage = "resume"
  /\ audioCtx' = "running"
  /\ reqs' = [reqs EXCEPT ![s].stage = "provider"]
  /\ fx' = {"generateSpeech"}
  /\ UNCHANGED <<docVars, settingVars, activePage, isPlaying, isGeneratingAudio, isPaused,
                 history, audioSourceRef, abortControllerRef, tts, timers>>
  /\ UNCHANGED handlerVars

\* "finally": only the request that still owns abortControllerRef clears the flag
finallyGenerating(s) ==
  IF abortControllerRef = s THEN FALSE ELSE isGeneratingAudio

\* generateSpeech resolved with data; base64ToUint8Array; decodeAudioData awaited
providerSucceeds(s) ==
  /\ reqs[s].stage = "provider"
  /\ providerMayAnswer(reqs[s])
  /\ reqs' = [reqs EXCEPT ![s].stage = "decode"]
  /\ fx' = {}
  /\ UNCHANGED <<docVars, settingVars, activePage, isPlaying, isGeneratingAudio, isPaused,
                 history, audioCtx, audioSourceRef, abortControllerRef, tts, timers>>
  /\ UNCHANGED handlerVars

\* the catch block for an error that is not an abort, then finally
catchError(s) ==
  /\ isPlaying' = FALSE
  /\ fx' = {"toast:error"}
  /\ isGeneratingAudio' = finallyGenerating(s)
  /\ reqs' = [reqs EXCEPT ![s] = FreeRec]
  /\ UNCHANGED <<docVars, settingVars, activePage, isPaused, history, audioCtx,
                 audioSourceRef, abortControllerRef, tts, timers>>
  /\ UNCHANGED handlerVars

\* generateSpeech rejected with a provider error, or resolved with no data (line 249)
providerFails(s) ==
  /\ reqs[s].stage = "provider"
  /\ providerMayAnswer(reqs[s])
  /\ catchError(s)

\* generateSpeech rejected because its signal is aborted: catch returns, then finally
providerAborted(s) ==
  /\ reqs[s].stage = "provider"
  /\ reqs[s].aborted
  /\ isGeneratingAudio' = finallyGenerating(s)
  /\ reqs' = [reqs EXCEPT ![s] = FreeRec]
  /\ fx' = {}
  /\ UNCHANGED <<docVars, settingVars, activePage, isPlaying, isPaused, history, audioCtx,
                 audioSourceRef, abortControllerRef, tts, timers>>
  /\ UNCHANGED handlerVars

\* decodeAudioData resolved: lines 254-271, then finally
decodeSucceeds(s) ==
  /\ reqs[s].stage = "decode"
  /\ IF abortedAfterDecode(reqs[s])
     THEN /\ reqs' = [reqs EXCEPT ![s] = FreeRec]
          /\ fx' = {}
          /\ UNCHANGED <<isPlaying, audioSourceRef>>
     ELSE /\ reqs' = [reqs EXCEPT ![s].stage = "playing", ![s].rate = sourceRate(reqs[s].cl)]
          /\ audioSourceRef' = s
          /\ isPlaying' = TRUE
          /\ fx' = {"sourceStart"}
  /\ isGeneratingAudio' = finallyGenerating(s)
  /\ UNCHANGED <<docVars, settingVars, activePage, isPaused, history, audioCtx,
                 abortControllerRef, tts, timers>>
  /\ UNCHANGED handlerVars

\* decodeAudioData rejected: it takes no signal, so also for an aborted request
decodeFails(s) ==
  /\ reqs[s].stage = "decode"
  /\ catchError(s)

\* handleAutoAdvance of the render with closure cl: the 500 ms timer, if a page follows
handleAutoAdvance(cl) ==
  LET currentIndex == IndexOf(pages, activePage)
  IN IF activePage # NoPage /\ currentIndex # 0 /\ currentIndex < Len(pages)
     THEN Append(timers, [kind |-> "auto", stage |-> "delay",
                          page |-> nextPageOf(pages, currentIndex),
                          cl |-> cl, playing |-> FALSE])
     ELSE timers

\* source.onended of request s
onended(s) ==
  /\ IF onendedApplies(reqs[s])
     THEN /\ isPlaying' = FALSE
          /\ timers' = handleAutoAdvance(reqs[s].cl)
          /\ Len(timers') <= MaxTimers
     ELSE UNCHANGED <<isPlaying, timers>>
  /\ reqs' = [reqs EXCEPT ![s] = FreeRec]
  /\ fx' = {}
  /\ UNCHANGED <<docVars, settingVars, activePage, isGeneratingAudio, isPaused, history,
                 audioCtx, audioSourceRef, abortControllerRef, tts>>
  /\ UNCHANGED handlerVars

\* the buffer played to its end
sourceEnds(s) ==
  /\ reqs[s].stage = "playing"
  /\ audioCtx = "running"
  /\ onended(s)

\* the ended event of a source that stop() ended
sourceStopEvent(s) ==
  /\ reqs[s].stage = "stopped"
  /\ audioCtx = "running" \/ reqs[s].aborted
  /\ onended(s)

\* ------------------------------------------------- on-device callbacks
ttsEnds ==
  /\ tts.state = "speaking"
  /\ tts' = TtsIdle
  /\ isPlaying' = FALSE
  /\ timers' = handleAutoAdvance(tts.cl)
  /\ Len(timers') <= MaxTimers
  /\ fx' = {}
  /\ UNCHANGED <<docVars, settingVars, activePage, isGeneratingAudio, isPaused, history,
                 audioCtx, audioSourceRef, abortControllerRef, reqs>>
  /\ UNCHANGED handlerVars

ttsErrors ==
  /\ tts.state = "speaking"
  /\ tts' = TtsIdle
  /\ isPlaying' = FALSE
  /\ fx' = {"toast:error"}
  /\ UNCHANGED <<docVars, settingVars, activePage, isGeneratingAudio, isPaused, history,
                 audioCtx, audioSourceRef, abortControllerRef, reqs, timers>>
  /\ UNCHANGED handlerVars

\* ---------------------------------------------------------------- timers
RemoveAt(s, i) == SubSeq(s, 1, i - 1) \o SubSeq(s, i + 1, Len(s))

\* timers of one delay fire in the order they were set
timerDue(i) == \A j \in 1..(i-1) : timers[j].stage # timers[i].stage

timerFires(i) ==
  LET t == timers[i]
  IN
  /\ i \in 1..Len(timers)
  /\ timerDue(i)
  /\ IF t.kind = "auto" /\ t.stage = "delay" /\ t.cl.view = "flip"
     THEN /\ timers' = Append(RemoveAt(timers, i), [t EXCEPT !.stage = "flip"])
          /\ fx' = {}
          /\ UNCHANGED <<activePage, isPlaying, isGeneratingAudio, isPaused, history,
                         audioCtx, audioSourceRef, abortControllerRef, reqs, tts>>
     ELSE /\ timers' = RemoveAt(timers, i)
          /\ IF t.kind = "auto" \/ t.playing
             THEN playPage(t.page, t.cl, IF t.kind = "auto" THEN {"autoAdvance"} ELSE {})
             ELSE /\ activePage' = t.page
                  /\ fx' = {}
                  /\ UNCHANGED <<isPlaying, isGeneratingAudio, isPaused, history, audioCtx,
                                 audioSourceRef, abortControllerRef, reqs, tts>>
  /\ UNCHANGED <<docVars, settingVars>>
  /\ UNCHANGED handlerVars

\* ------------------------------------------------- the speech endpoint
\* handler(req) of api/generate-speech.ts, one request at a time.  A JS
\* value of the body is its kind and, for a string, its length; API_KEY is
\* process.env.API_KEY ("undefined" when the variable is not set).
\*   hPc        : idle | json (awaiting req.json()) | provider (awaiting
\*                generateContent) | done
\*   hProvider  : what the provider did for this request
\*   hClients   : GoogleGenAI clients constructed for this request
\*   hCalls     : the generateContent calls made for this request
\*   hResponses : the Responses returned for this request
Keys == {"undefined", "", "key"}
Methods == {"POST", "GET"}
Bodies == {"json", "invalid"}
TextLens == {0, 1, MAX_CHARS, MAX_CHARS + 1}
Texts == {[kind |-> "undefined", len |-> 0], [kind |-> "null", len |-> 0]}
           \cup {[kind |-> "string", len |-> n] : n \in TextLens}
Voices == {"undefined", "Puck"}
ProviderOutcomes == {"audio", "empty", "throws"}

Response(status, body) == [status |-> status, body |-> body]

\* !text
falsy(text) == text.kind # "string" \/ text.len = 0

\* the length check taken with >= in place of >
tooLongInclusive(text) == text.kind = "string" /\ text.len >= MAX_CHARS

\* text.length > MAX_CHARS
tooLong(text) == text.kind = "string" /\ text.len > MAX_CHARS

\* reading text.length of undefined or null throws a TypeError
lengthThrows(text) == text.kind \in {"undefined", "null"}

\* the credential check that never finds the key missing
keyMissingNever(apiKey) == FALSE

\* !apiKey
keyMissing(apiKey) == apiKey \in {"undefined", ""}

\* an answer of the provider taken to hold audio whatever it holds
hasAudioAlways(outcome) == TRUE

\* audioPart?.inlineData?.data is there
hasAudio(outcome) == outcome = "audio"

\* voice || 'Kore'
voiceName(voice) == IF voice = "undefined" THEN "Kore" ELSE voice

InitHandler ==
  /\ AppInit
  /\ API_KEY \in Keys
  /\ HandlerIdle

\* the catch block: status 500 with the error's message
handlerCatch ==
  /\ hResponses' = Append(hResponses, Response(500, "error"))
  /\ hPc' = "done"

\* a request arrives: the method test, then req.json() is awaited
handlerReceives(method, body, text, voice) ==
  /\ hPc \in {"idle", "done"}
  /\ hReq' = [method |-> method, body |-> body, text |-> text, voice |-> voice]
  /\ hProvider' = "none"
  /\ hClients' = 0
  /\ hCalls' = <<>>
  /\ IF method # "POST"
     THEN /\ hResponses' = <<Response(405, "text")>>
          /\ hPc' = "done"
     ELSE /\ hResponses' = <<>>
          /\ hPc' = "json"
  /\ UNCHANGED <<API_KEY, appVars>>

\* req.json() settled: lines 13-54, up to the awaited generateContent
handlerParsed ==
  /\ hPc = "json"
  /\ IF hReq.body = "invalid"
     THEN handlerCatch /\ UNCHANGED <<hClients, hCalls>>
     ELSE IF falsy(hReq.text) \/ tooLong(hReq.text)
     THEN /\ IF lengthThrows(hReq.text)
             THEN handlerCatch
             ELSE /\ hResponses' = Append(hResponses, Response(400, "error"))
                  /\ hPc' = "done"
          /\ UNCHANGED <<hClients, hCalls>>
     ELSE IF keyMissing(API_KEY)
     THEN /\ hResponses' = Append(hResponses, Response(500, "error"))
          /\ hPc' = "done"
          /\ UNCHANGED <<hClients, hCalls>>
     ELSE /\ hClients' = hClients + 1
          /\ hCalls' = Append(hCalls, [len |-> hReq.text.len, voice |-> voiceName(hReq.voice)])
          /\ hPc' = "provider"
          /\ UNCHANGED hResponses
  /\ UNCHANGED <<API_KEY, hReq, hProvider, appVars>>

\* generateContent settled: lines 56-66, or the catch block
handlerProviderReturns(outcome) ==
  /\ hPc = "provider"
  /\ hProvider' = outcome
  /\ IF outcome # "throws" /\ hasAudio(outcome)
     THEN /\ hResponses' = Append(hResponses, Response(200, "audioData"))
          /\ hPc' = "done"
     ELSE handlerCatch
  /\ UNCHANGED <<API_KEY, hReq, hClients, hCalls, appVars>>

NextHandler ==
  \/ \E m \in Methods, b \in Bodies, x \in Texts, v \in Voices : handlerReceives(m, b, x, v)
  \/ handlerParsed
  \/ \E o \in ProviderOutcomes : handlerProviderReturns(o)

SpecHandler == InitHandler /\ [][NextHandler]_vars

\* ================================================================ claims
InFlight(r) == r.stage \in {"resume", "provider", "decode"}
ProviderRequest == {"generateSpeech", "speak"}
Idle == ~isPlaying /\ ~isGeneratingAudio
Count(h, n) == Cardinality({i \in 1..Len(h) : h[i] = n})
Without(h, n) == SelectSeq(h, LAMBDA x : x # n)
LastPage == IF pages = <<>> THEN NoPage ELSE pages[Len(pages)]
AtLastPage == activePage # NoPage /\ activePage = LastPage
HasNext(n) == IndexOf(pages, n) # 0 /\ IndexOf(pages, n) < Len(pages)

\* C1: at most one provider call with a token that is not aborted is pending;
\* every request still in flight, other than the one that owns
\* abortControllerRef, has had its token aborted.
C1_AtMostOneLiveCall ==
  /\ Cardinality({s \in Slots : reqs[s].stage = "provider" /\ ~reqs[s].aborted}) <= 1
  /\ \A s \in Slots : (InFlight(reqs[s]) /\ ~reqs[s].aborted) => s = abortControllerRef

\* C1 witness: a second play request was issued while the first call was
\* pending: two calls are pending and the older one's token is aborted.
C1_Witness ==
  \E s, u \in Slots :
    /\ s # u
    /\ reqs[s].stage = "provider" /\ reqs[s].aborted
    /\ reqs[u].stage = "provider" /\ ~reqs[u].aborted
    /\ abortControllerRef = u

\* an outcome of request s is delivered in this step
Outcome(s) ==
  \/ providerSucceeds(s) \/ providerFails(s) \/ providerAborted(s)
  \/ decodeSucceeds(s) \/ decodeFails(s)
  \/ sourceEnds(s) \/ sourceStopEvent(s)

\* C2: no outcome of a superseded (aborted) request changes isPlaying,
\* isPaused or isGeneratingAudio, starts an audio source or sets the
\* auto-advance timer.
C2_SupersededOutcomeInert ==
  [][\A s \in Slots :
       (reqs[s].aborted /\ Outcome(s)) =>
         /\ UNCHANGED <<isPlaying, isPaused, isGeneratingAudio, audioSourceRef, timers>>
         /\ "sourceStart" \notin fx']_vars

\* A call that was in flight at a mode switch: it still owns an unaborted
\* token, and isGeneratingAudio, set when it was issued, has been cleared
\* (only handleToggleCloudMode clears it under a live request).
SwitchedCall(s) == InFlight(reqs[s]) /\ ~reqs[s].aborted /\ ~isGeneratingAudio

\* C3: a mode switch leaves the coordinator Idle, and the result of a call
\* that was in flight at the switch neither starts a source nor sets isPlaying.
C3_ModeSwitchCancelsCall ==
  [][/\ (\E b \in BOOLEAN : handleToggleCloudMode(b)) => Idle'
     /\ \A s \in Slots :
          (SwitchedCall(s) /\ decodeSucceeds(s)) =>
            (~isPlaying' /\ audioSourceRef' = NoSlot /\ "sourceStart" \notin fx')]_vars

\* C4: a mode switch while Playing leaves the three flags false, no source
\* started and none referenced, and the on-device synthesizer cancelled.
C4_ModeSwitchReleases ==
  [][\A b \in BOOLEAN :
       (isPlaying /\ handleToggleCloudMode(b)) =>
         /\ ~isPlaying' /\ ~isPaused' /\ ~isGeneratingAudio'
         /\ audioSourceRef' = NoSlot
         /\ \A s \in Slots : reqs'[s].stage # "playing"
         /\ tts'.state = "idle"]_vars

\* C4 witness: just after a mode switch (the only step that shows the info
\* toast) that stopped a started source: the source's token is not aborted.
C4_Witness ==
  /\ fx = {"toast:info"}
  /\ \E s \in Slots : reqs[s].stage = "stopped" /\ ~reqs[s].aborted
  /\ ~isPlaying /\ ~isPaused /\ ~isGeneratingAudio /\ audioSourceRef = NoSlot

\* C5: the history list changes only in a step that starts playback.
C5_HistoryOnlyOnStart ==
  [][history' # history => ("sourceStart" \in fx' \/ "speak" \in fx')]_vars

HistoryWellFormed(h) ==
  /\ Len(h) <= HistoryCap
  /\ \A i, j \in 1..Len(h) : i # j => h[i] # h[j]

\* C6: the history never holds more than 10 entries nor a page twice, and a
\* step that changes it puts the new active page first and keeps the other
\* entries in their order, cut at 10.
C6_HistoryCappedDistinct ==
  /\ []HistoryWellFormed(history)
  /\ [][history' # history =>
          LET rest == Without(history, activePage')
          IN /\ history'[1] = activePage'
             /\ Len(history') = (IF Len(rest) + 1 < HistoryCap THEN Len(rest) + 1 ELSE HistoryCap)
             /\ \A i \in 2..Len(history') : history'[i] = rest[i - 1]]_vars

\* C6 witness: two pages of the book were appended to a list that was one
\* short of the cap: the list is full and its oldest entry was dropped.
C6_Witness ==
  /\ Len(history) = HistoryCap
  /\ history[1] \in PageNums /\ history[2] \in PageNums
  /\ Count(history, StoredHistory[Len(StoredHistory)]) = 0

AutoTimer(n, cl) ==
  [kind |-> "auto", stage |-> "delay", page |-> n, cl |-> cl, playing |-> FALSE]

C8_LastPageStaysIdle ==
  [][/\ \A s \in Slots :
          (sourceEnds(s) /\ ~reqs[s].aborted /\ AtLastPage) =>
             /\ UNCHANGED <<timers, activePage, history>>
             /\ fx' \cap ProviderRequest = {}
             /\ Idle'
             /\ \A u \in Slots : InFlight(reqs'[u]) => reqs'[u].aborted
     /\ (ttsEnds /\ AtLastPage) =>
             /\ UNCHANGED <<timers, activePage, history>>
             /\ fx' \cap ProviderRequest = {}
             /\ Idle'
             /\ \A u \in Slots : InFlight(reqs'[u]) => reqs'[u].aborted]_vars

\* C8 witness: the source of the last page has ended on its own (a stopped
\* source is never left in audioSourceRef) and nothing is scheduled.
C8_Witness ==
  /\ AtLastPage
  /\ audioSourceRef # NoSlot /\ reqs[audioSourceRef].stage = "done"
  /\ Idle /\ timers = <<>> /\ fx = {}

\* the rate of the engine that is producing sound
EngineRate ==
  IF tts.state # "idle" THEN tts.rate
  ELSE IF \E s \in Slots : reqs[s].stage = "playing"
       THEN reqs[CHOOSE s \in Slots : reqs[s].stage = "playing"].rate
       ELSE 0

\* C9: a rate change while Playing sets the active engine's rate to the new
\* value, issues no provider request and keeps activePage and history.
C9_RateChangeInPlace ==
  [][\A r \in Rates :
       (isPlaying /\ ~isPaused /\ EngineRate # 0 /\ handleSpeedChange(r)) =>
         /\ EngineRate' = r
         /\ fx' \cap ProviderRequest = {}
         /\ UNCHANGED <<activePage, history>>]_vars

\* C10: the source created for a request plays at the rate selected when it
\* starts.
C10_StartsAtSelectedRate ==
  "sourceStart" \in fx => reqs[audioSourceRef].rate = playbackRate

\* the engine that is producing, or holding, the sound of the narration
SourcePlaying == \E s \in Slots : reqs[s].stage = "playing"
EngineHalted == (SourcePlaying => audioCtx = "suspended") /\ tts.state # "speaking"
EngineRunning == (SourcePlaying => audioCtx = "running") /\ tts.state # "paused"

\* C11: a pause request while Playing yields Paused with the active engine
\* suspended, a resume request while Paused yields Playing with it resumed;
\* neither issues a provider request, touches a request or a source, or
\* changes activePage or history.
C11_PauseResumeInPlace ==
  [][(isPlaying /\ handleTogglePlay) =>
       /\ isPlaying' /\ isPaused' = ~isPaused
       /\ IF isPaused THEN EngineRunning' ELSE EngineHalted'
       /\ fx' \cap ProviderRequest = {}
       /\ UNCHANGED <<activePage, history, reqs, audioSourceRef, abortControllerRef>>]_vars


\* the play request of this step is for page p: a cloud request under a new
\* token that owns abortControllerRef, or a new on-device utterance
FreshRequestFor(p) ==
  \/ \E s \in Slots :
       /\ reqs[s].stage = "done" /\ InFlight(reqs'[s])
       /\ reqs'[s].page = p /\ ~reqs'[s].aborted /\ abortControllerRef' = s
       /\ "generateSpeech" \in fx' \/ reqs'[s].stage = "resume"
  \/ "speak" \in fx' /\ tts'.state = "speaking" /\ tts'.page = p

\* C12: a page selection, whatever the state, aborts every call in flight,
\* leaves no source playing and no earlier utterance speaking, clears
\* isPaused, makes the selected page active and issues one play request, for
\* that page.
C12_SelectRestarts ==
  [][\A p \in PageNums :
       handlePageSelect(p) =>
         /\ \A s \in Slots : InFlight(reqs[s]) => (reqs'[s].aborted /\ reqs'[s].page = reqs[s].page)
         /\ \A s \in Slots : reqs'[s].stage # "playing"
         /\ audioSourceRef' = NoSlot
         /\ tts'.state = "idle" \/ "speak" \in fx'
         /\ ~isPaused'
         /\ activePage' = p
         /\ FreshRequestFor(p)
         /\ Cardinality({s \in Slots : InFlight(reqs'[s]) /\ ~reqs'[s].aborted})
              + (IF tts'.state = "idle" THEN 0 ELSE 1) = 1]_vars

\* C12 witness: page 2 was selected while page 1 was Paused in cloud mode:
\* the source of page 1 is stopped and its token aborted, isPaused is
\* cleared and the request for page 2 waits for the context to resume.
C12_Witness ==
  /\ activePage = 2 /\ ~isPaused /\ isGeneratingAudio /\ audioSourceRef = NoSlot
  /\ \E s, u \in Slots :
       /\ reqs[s].stage = "stopped" /\ reqs[s].page = 1 /\ reqs[s].aborted
       /\ reqs[u].stage = "resume" /\ reqs[u].page = 2 /\ ~reqs[u].aborted
       /\ abortControllerRef = u


\* C13: isGeneratingAudio is true only while a call whose token is not
\* aborted is in flight, and never together with isPlaying.
C13_GeneratingOnlyInFlight ==
  /\ isGeneratingAudio => \E s \in Slots : InFlight(reqs[s]) /\ ~reqs[s].aborted
  /\ ~(isGeneratingAudio /\ isPlaying)


\* the playback resources that are sounding or held: started sources and
\* the on-device utterance
ActiveResources ==
  Cardinality({s \in Slots : reqs[s].stage = "playing"}) + (IF tts.state = "idle" THEN 0 ELSE 1)

\* the provider is called in this step for request s under a live token
CallStarted(s) ==
  /\ "generateSpeech" \in fx'
  /\ reqs[s].stage # "provider" /\ reqs'[s].stage = "provider" /\ ~reqs'[s].aborted

UserEvent ==
  \/ loadDemoBook
  \/ \E p \in PageNums : handlePageSelect(p) \/ handleIndexJump(p)
  \/ handleTogglePlay \/ handleNext \/ handlePrev
  \/ \E r \in Rates : handleSpeedChange(r)
  \/ \E b \in BOOLEAN : handleToggleCloudMode(b)

\* nothing is left that could issue a provider request or start playback on
\* its own: no timer, no live call, no utterance, no source whose ended
\* event would be taken
Quiescent ==
  /\ timers = <<>>
  /\ tts.state = "idle"
  /\ \A s \in Slots : reqs[s].stage # "done" => reqs[s].aborted

\* the current request s fails in this step
CurrentFails(s) == ~reqs[s].aborted /\ (providerFails(s) \/ decodeFails(s))

\* C15: when the call or the decoding of the current request fails, the
\* three flags are false, one error toast is shown and nothing else is
\* emitted, and the coordinator is left with nothing that acts on its own:
\* from then on, until a user event, no live provider request is issued.
C15_FailureEndsIdle ==
  [][/\ \A s \in Slots :
          CurrentFails(s) =>
            /\ ~isPlaying' /\ ~isGeneratingAudio' /\ ~isPaused'
            /\ fx' = {"toast:error"}
            /\ Quiescent'
     /\ (Quiescent /\ ~UserEvent) =>
            /\ Quiescent'
            /\ fx' \cap {"speak", "sourceStart", "autoAdvance"} = {}]_vars


\* C16: no outcome of a cancelled (aborted) request shows an error toast.
C16_CancelNotSurfaced ==
  [][\A s \in Slots : (reqs[s].aborted /\ Outcome(s)) => "toast:error" \notin fx']_vars


\* the request being handled is a POST whose body parsed to a string text
StringPost == hReq.method = "POST" /\ hReq.body = "json" /\ hReq.text.kind = "string"

\* C17: a POST whose text is longer than 3000 characters is answered 400
\* with an error body, with no client constructed and no provider call,
\* whatever API_KEY is; a text of exactly 3000 characters is not answered 400.
C17_TooLongRejected ==
  [][(handlerParsed /\ StringPost) =>
       /\ hReq.text.len > MAX_CHARS =>
            /\ hResponses' = <<Response(400, "error")>>
            /\ hClients' = 0 /\ hCalls' = <<>> /\ hPc' = "done"
       /\ hReq.text.len = MAX_CHARS =>
            \A i \in 1..Len(hResponses') : hResponses'[i].status # 400]_vars

\* C17 witness: a text of 3001 characters was rejected with the credential
\* configured.
C17_Witness ==
  /\ StringPost /\ hReq.text.len = MAX_CHARS + 1
  /\ API_KEY = "key"
  /\ hPc = "done" /\ hResponses = <<Response(400, "error")>>
  /\ hClients = 0 /\ hCalls = <<>>

\* C19: with API_KEY unset or empty, a POST with a non-empty text of at most
\* 3000 characters is answered 500 with an error body, once, with no client
\* constructed and no provider call; a text that is too long is answered 400
\* all the same.
C19_MissingKeyFatal ==
  [][(handlerParsed /\ StringPost /\ API_KEY \in {"undefined", ""}) =>
       /\ (hReq.text.len >= 1 /\ hReq.text.len <= MAX_CHARS) =>
            /\ hResponses' = <<Response(500, "error")>>
            /\ hClients' = 0 /\ hCalls' = <<>> /\ hPc' = "done"
       /\ hReq.text.len > MAX_CHARS => hResponses' = <<Response(400, "error")>>]_vars

\* C19 witness: a one-character text was answered 500 with API_KEY unset.
C19_Witness ==
  /\ StringPost /\ hReq.text.len = 1
  /\ API_KEY = "undefined"
  /\ hPc = "done" /\ hResponses = <<Response(500, "error")>>
  /\ hClients = 0 /\ hCalls = <<>>

\* a POST whose body parsed and whose text is non-empty and within the limit
ValidRequest == StringPost /\ hReq.text.len >= 1 /\ hReq.text.len <= MAX_CHARS

\* C20: a request has no response while it is handled and exactly one when
\* it is done; that response is 200 with audioData exactly when the request
\* is a valid POST, API_KEY is set and the provider returned audio; an empty
\* or failed provider answer gives 500 with an error; a request that is not
\* a POST gives 405 with no client, no provider call and nothing else.
C20_OneResponse ==
  /\ Len(hResponses) = (IF hPc = "done" THEN 1 ELSE 0)
  /\ hPc = "done" =>
       LET r == hResponses[1]
       IN /\ r.status \in {200, 400, 405, 500}
          /\ (r.status = 200) <=> (ValidRequest /\ API_KEY = "key" /\ hProvider = "audio")
          /\ (r.body = "audioData") <=> (r.status = 200)
          /\ hProvider \in {"empty", "throws"} => r = Response(500, "error")
          /\ hReq.method # "POST" =>
               (r = Response(405, "text") /\ hClients = 0 /\ hCalls = <<>> /\ hProvider = "none")
          /\ Len(hCalls) <= 1 /\ hClients <= 1

\* C20 witness: a text of exactly 3000 characters was answered 200 after
\* one provider call.
C20_Witness ==
  /\ ValidRequest /\ hReq.text.len = MAX_CHARS
  /\ hPc = "done" /\ hResponses = <<Response(200, "audioData")>>
  /\ hProvider = "audio" /\ Len(hCalls) = 1


\* generateSpeech is invoked in this step for request s
Invoked(s) ==
  "generateSpeech" \in fx' /\ reqs[s].stage # "provider" /\ reqs'[s].stage = "provider"

\* C18: generateSpeech is never invoked with a page content of more than
\* 3000 characters: a cloud play request for such a page shows the error
\* and leaves the coordinator Idle with no call in flight.
C18_LocalLengthCheck ==
  [][/\ \A s \in Slots : Invoked(s) => textSent(reqs'[s]) <= MAX_CHARS
     /\ \A p \in PageNums :
          (handlePageSelect(p) /\ useCloudTTS /\ PageChars[p] > MAX_CHARS) =>
             /\ Idle' /\ "toast:error" \in fx'
             /\ \A s \in Slots : ~(InFlight(reqs'[s]) /\ ~reqs'[s].aborted)]_vars


\* the pages whose narration is live: generated under a token that is not
\* aborted, sounding from a started source, or spoken on the device
LivePages ==
  {reqs[s].page : s \in {u \in Slots : (InFlight(reqs[u]) \/ reqs[u].stage = "playing")
                                        /\ ~reqs[u].aborted}}
    \cup (IF tts.state = "idle" THEN {} ELSE {tts.page})

\* C22: while isPlaying or isGeneratingAudio is true, the page of the live
\* narration is the active page.
C22_NarrationOfActivePage ==
  (isPlaying \/ isGeneratingAudio) => \A p \in LivePages : p = activePage

\* a narration is in effect: a live call, a started source or an utterance
NarrationInEffect == LivePages # {}

\* the auto-advance timer i issues its play request in this step
AutoRequestBy(i) ==
  /\ i \in 1..Len(timers) /\ timers[i].kind = "auto"
  /\ timers[i].stage = "flip" \/ timers[i].cl.view = "scroll"
  /\ timerFires(i)

\* C23: an auto-advance timer that fires while a narration is in effect (a
\* play request made after the timer was set) changes nothing: the active
\* page, the requests, the utterance and the history stay as they are.
C23_AutoAdvanceYields ==
  [][\A i \in 1..MaxTimers :
       (NarrationInEffect /\ AutoRequestBy(i)) =>
         /\ UNCHANGED <<activePage, reqs, tts, history, isPlaying, isGeneratingAudio>>
         /\ fx' \cap ProviderRequest = {}]_vars

\* C24: the ended event of a source that a mode switch stopped (its token
\* is not aborted) sets no auto-advance timer and changes neither a flag
\* nor the active page.
C24_SwitchStaysIdle ==
  [][\A s \in Slots :
       (sourceStopEvent(s) /\ ~reqs[s].aborted) =>
         UNCHANGED <<timers, isPlaying, isGeneratingAudio, isPaused, activePage>>]_vars

\* the closure of the play request that the last step issued
IssuedClosure ==
  IF tts.state # "idle" /\ "speak" \in fx THEN tts.cl ELSE reqs[abortControllerRef].cl

\* C25: a play request issued by auto-advance carries the narration mode,
\* the rate and the voice selector that are selected when it is issued.
C25_AutoAdvanceCurrentSettings ==
  "autoAdvance" \in fx =>
     /\ IssuedClosure.cloud = useCloudTTS
     /\ IssuedClosure.rate = playbackRate
     /\ IssuedClosure.voice = selectedVoiceURI


\* the text of the request is missing, null or the empty string
EmptyText ==
  hReq.text.kind \in {"undefined", "null"} \/ (hReq.text.kind = "string" /\ hReq.text.len = 0)

\* C29: a POST whose body parsed and whose text is missing, null or empty
\* is answered 400 with an error body, with no provider call.
C29_EmptyTextIs400 ==
  [][(handlerParsed /\ hReq.method = "POST" /\ hReq.body = "json" /\ EmptyText) =>
       /\ hResponses' = <<Response(400, "error")>>
       /\ hClients' = 0 /\ hCalls' = <<>>]_vars


\* a call to the provider, or the decoding of its answer, is pending
CallPending == \E s \in Slots : InFlight(reqs[s])

\* C26: isGeneratingAudio does not stay true forever while no call is
\* pending: again and again it is false or a call is pending.
C26_GeneratingIsLeft == []<>(~isGeneratingAudio \/ CallPending)


\* a cloud play request is made in this step under slot s
Requested(s) == reqs[s].stage = "done" /\ InFlight(reqs'[s])

\* C21: handleRecordVoice with a sample stores it and selects
\* 'custom-voice', with null it clears the sample and selects the default;
\* and the sample a cloud play request hands to the provider is the stored
\* one if the selector is 'custom-voice' when the request is made, null
\* otherwise.
C21_VoiceSample ==
  [][/\ \A b \in VoiceSamples :
          handleRecordVoice(b) =>
            IF b # "null"
            THEN userVoiceSample' = b /\ selectedVoiceURI' = "custom-voice"
            ELSE userVoiceSample' = "null" /\ selectedVoiceURI' = "null"
     /\ \A s \in Slots :
          Requested(s) =>
            sampleSent(reqs'[s].cl) =
              (IF selectedVoiceURI = "custom-voice" THEN userVoiceSample ELSE "null")]_vars


\* C27: activePage is null or the number of a page of the document.
C27_ActivePageInDocument ==
  activePage = NoPage \/ IndexOf(pages, activePage) # 0


\* the step issues no provider request, starts nothing and leaves the
\* history, the flags, the requests and the utterance as they are
SelectionOnly ==
  /\ fx' \cap ProviderRequest = {} /\ "sourceStart" \notin fx'
  /\ UNCHANGED <<history, isPlaying, isPaused, isGeneratingAudio, reqs, tts,
                 audioSourceRef, abortControllerRef>>

\* the page-turn timer of a next or prev event made with isPlaying false
NavTimer(n) ==
  [kind |-> "nav", stage |-> "flip", page |-> n, cl |-> CurClosure, playing |-> FALSE]

\* C28: with isPlaying false an index or history jump makes the target the
\* active page; next and prev make the adjacent page active, at once in
\* scroll view and when the page-turn timer fires in flip view; none of
\* these steps issues a provider request, adds a history entry or changes
\* isPlaying, isPaused or isGeneratingAudio.
C28_NavigationSelectsOnly ==
  [][/\ \A p \in PageNums :
          (~isPlaying /\ handleIndexJump(p)) => (activePage' = p /\ SelectionOnly)
     /\ \A dir \in {1, -1} :
          (~isPlaying /\ handleTurn(dir) /\ IndexOf(pages, activePage) # 0) =>
            /\ SelectionOnly
            /\ IF viewMode = "scroll"
               THEN activePage' = activePage + dir /\ UNCHANGED timers
               ELSE activePage' = activePage
                    /\ timers' = Append(timers, NavTimer(activePage + dir))
     /\ \A i \in 1..MaxTimers :
          (i <= Len(timers) /\ timers[i].kind = "nav" /\ ~timers[i].playing /\ timerFires(i)) =>
            (activePage' = timers[i].page /\ SelectionOnly)]_vars

\* C28 witness: in flip view, with nothing playing, page 2 has become the
\* active page by navigation alone: it has no history entry and no request.
C28_Witness ==
  /\ ~isLanding /\ viewMode = "flip" /\ timers = <<>>
  /\ activePage = 2 /\ Count(history, 2) = 0
  /\ ~isPlaying /\ ~isGeneratingAudio /\ \A s \in Slots : reqs[s].stage = "done"


Next ==
  \/ loadDemoBook
  \/ \E p \in PageNums : handlePageSelect(p)
  \/ handleTogglePlay
  \/ \E p \in PageNums : handleIndexJump(p)
  \/ handleNext
  \/ handlePrev
  \/ \E r \in Rates : handleSpeedChange(r)
  \/ \E b \in BOOLEAN : handleToggleCloudMode(b)
  \/ \E s \in Slots : resumeDone(s)
  \/ \E s \in Slots : providerSucceeds(s)
  \/ \E s \in Slots : providerFails(s)
  \/ \E s \in Slots : providerAborted(s)
  \/ \E s \in Slots : decodeSucceeds(s)
  \/ \E s \in Slots : decodeFails(s)
  \/ \E s \in Slots : sourceEnds(s)
  \/ \E s \in Slots : sourceStopEvent(s)
  \/ ttsEnds
  \/ ttsErrors
  \/ \E i \in 1..MaxTimers : timerFires(i)

Spec == Init /\ [][Next]_vars

\* What the runtime schedules by itself is not postponed forever: a pending
\* promise settles (the provider answers every call, with data, an error or
\* the abort error), a sounding source or utterance ends, an ended event is
\* delivered and a timer fires.  Nothing is required of the user.
Fairness ==
  /\ \A s \in Slots :
       /\ WF_vars(resumeDone(s))
       /\ WF_vars(providerSucceeds(s) \/ providerFails(s) \/ providerAborted(s))
       /\ WF_vars(decodeSucceeds(s) \/ decodeFails(s))
       /\ WF_vars(sourceEnds(s))
       /\ WF_vars(sourceStopEvent(s))
  /\ WF_vars(ttsEnds \/ ttsErrors)
  /\ \A i \in 1..MaxTimers : WF_vars(timerFires(i))

SpecFair == Spec /\ Fairness

\* The reader in cloud mode at the default rate and in scroll view, with
\* the voice events: no navigation, pause, rate change or mode switch.
NextVoice ==
  \/ loadDemoBook
  \/ \E p \in PageNums : handlePageSelect(p)
  \/ \E b \in VoiceSamples : handleRecordVoice(b)
  \/ \E v \in VoiceChoices : setSelectedVoiceURI(v)
  \/ \E s \in Slots : providerSucceeds(s)
  \/ \E s \in Slots : providerFails(s)
  \/ \E s \in Slots : providerAborted(s)
  \/ \E s \in Slots : decodeSucceeds(s)
  \/ \E s \in Slots : decodeFails(s)
  \/ \E s \in Slots : sourceEnds(s)
  \/ \E s \in Slots : sourceStopEvent(s)
  \/ \E i \in 1..MaxTimers : timerFires(i)

SpecVoice == Init /\ [][NextVoice]_vars

\* The reader in cloud mode at the default rate and voice, with the
\* document, navigation and view events.
NextDoc ==
  \/ loadDemoBook
  \/ \E f \in Files : handleFileUpload(f)
  \/ exitReader
  \/ \E p \in PageNums : handlePageSelect(p)
  \/ \E p \in PageNums : handleIndexJump(p)
  \/ handleNext
  \/ handlePrev
  \/ \E v \in {"scroll", "flip"} : setViewMode(v)
  \/ \E s \in Slots : providerSucceeds(s)
  \/ \E s \in Slots : providerFails(s)
  \/ \E s \in Slots : providerAborted(s)
  \/ \E s \in Slots : decodeSucceeds(s)
  \/ \E s \in Slots : decodeFails(s)
  \/ \E s \in Slots : sourceEnds(s)
  \/ \E s \in Slots : sourceStopEvent(s)
  \/ \E i \in 1..MaxTimers : timerFires(i)

SpecDoc == Init /\ [][NextDoc]_vars
====
